---- MODULE Spec2Model ----
(***************************************************************************)
(* A model of the token expiration notifier (src/src/main.rs): the tokens  *)
(* table, the CLI commands add / remove / list, and the daemon loop with   *)
(* its sweep (check_and_notify).                                           *)
(*                                                                         *)
(* Strings are sequences of one-character strings, so that the date        *)
(* parsers of chrono and of SQLite are computed character by character.    *)
(* Option<T> is a sequence of length at most one: None is <<>>, Some(x) is *)
(* <<x>>.  Instants are milliseconds since 2024-06-10T00:00:00Z (numbers   *)
(* are 32 bits wide in TLC, day numbers count from 1970-01-01).            *)
(***************************************************************************)
EXTENDS Integers, Sequences, FiniteSets, TLC

None == <<>>
Some(x) == <<x>>
IsSome(o) == Len(o) = 1
Unwrap(o) == o[1]

(***************************************************************************)
(* Characters and decimal numbers.                                         *)
(***************************************************************************)
IsDigit(c) == c \in {"0", "1", "2", "3", "4", "5", "6", "7", "8", "9"}

DigitVal(c) ==
    CASE c = "0" -> 0 [] c = "1" -> 1 [] c = "2" -> 2 [] c = "3" -> 3
      [] c = "4" -> 4 [] c = "5" -> 5 [] c = "6" -> 6 [] c = "7" -> 7
      [] c = "8" -> 8 [] c = "9" -> 9

DigitChar(n) == <<"0", "1", "2", "3", "4", "5", "6", "7", "8", "9">>[n + 1]

\* The characters with the Unicode property White_Space (char::is_whitespace):
\* U+0020, U+0009..U+000D, U+0085, U+00A0, U+1680, U+2000..U+200A, U+2028,
\* U+2029, U+202F, U+205F and U+3000.  A character that a string of this
\* module cannot hold is written as its code point.
WhiteSpace ==
    {" ", "\t", "\n", "", "\f", "\r", "", " ", " ",
     "U+2000", "U+2001", "U+2002", "U+2003", "U+2004", "U+2005",
     "U+2006", "U+2007", "U+2008", "U+2009", "U+200A",
     "U+2028", "U+2029", "U+202F",
     "U+205F", "U+3000"}

IsSpace(c) == c \in WhiteSpace

\* The byte value of a character, for SQLite's BINARY text comparison.
CharCode(c) ==
    CASE c = " " -> 32 [] c = "+" -> 43 [] c = "-" -> 45 [] c = ":" -> 58
      [] IsDigit(c) -> 48 + DigitVal(c)
      [] OTHER -> 120

RECURSIVE DigitRun(_, _)
\* The number of leading digits of s, at most max.
DigitRun(s, max) ==
    IF max = 0 \/ s = <<>> \/ ~IsDigit(Head(s)) THEN 0
    ELSE 1 + DigitRun(Tail(s), max - 1)

RECURSIVE DecValue(_)
DecValue(ds) ==
    IF ds = <<>> THEN 0
    ELSE 10 * DecValue(SubSeq(ds, 1, Len(ds) - 1)) + DigitVal(ds[Len(ds)])

RECURSIVE StripZeros(_)
\* A run of digits without its leading zeros (the last digit stays).
StripZeros(ds) ==
    IF Len(ds) > 1 /\ Head(ds) = "0" THEN StripZeros(Tail(ds)) ELSE ds

RECURSIVE DigitsLeqSameLen(_, _)
DigitsLeqSameLen(a, b) ==
    IF a = <<>> THEN TRUE
    ELSE IF DigitVal(Head(a)) < DigitVal(Head(b)) THEN TRUE
    ELSE IF DigitVal(Head(a)) > DigitVal(Head(b)) THEN FALSE
    ELSE DigitsLeqSameLen(Tail(a), Tail(b))

\* a <= b for decimal numbers given as digits without leading zeros.
DigitsLeq(a, b) ==
    Len(a) < Len(b) \/ (Len(a) = Len(b) /\ DigitsLeqSameLen(a, b))

\* C's integer division, which truncates toward zero (b > 0).
TruncDiv(a, b) == IF a >= 0 THEN a \div b ELSE 0 - ((0 - a) \div b)

RECURSIVE TrimStart(_)
\* str::trim_start: the text after its leading white space.
TrimStart(s) == IF s # <<>> /\ IsSpace(Head(s)) THEN TrimStart(Tail(s)) ELSE s

RECURSIVE Pad(_, _)
\* n >= 0 in decimal, zero-padded to at least w digits (format's %Y %m %d).
Pad(n, w) ==
    IF w <= 1 /\ n < 10 THEN <<DigitChar(n)>>
    ELSE Pad(n \div 10, w - 1) \o <<DigitChar(n % 10)>>

(***************************************************************************)
(* The proleptic Gregorian calendar (chrono's NaiveDate, SQLite's julian   *)
(* day): day numbers count from 1970-01-01.                                *)
(***************************************************************************)
MsPerSec == 10 * 100
MsPerDay == 24 * 60 * 60 * MsPerSec

IsLeap(y) == (y % 4 = 0 /\ y % 100 # 0) \/ y % 400 = 0

DaysInMonth(y, m) ==
    IF m = 2 THEN (IF IsLeap(y) THEN 29 ELSE 28)
    ELSE IF m \in {4, 6, 9, 11} THEN 30 ELSE 31

DaysFromCivil(y, m, d) ==
    LET yy  == IF m <= 2 THEN y - 1 ELSE y
        era == yy \div 400
        yoe == yy - era * 400
        mp  == IF m > 2 THEN m - 3 ELSE m + 9
        doy == (153 * mp + 2) \div 5 + d - 1
        doe == yoe * 365 + yoe \div 4 - yoe \div 100 + doy
    IN  era * 146097 + doe - 719468

CivilFromDays(z0) ==
    LET z   == z0 + 719468
        era == z \div 146097
        doe == z - era * 146097
        yoe == (doe - doe \div 1460 + doe \div 36524 - doe \div 146096) \div 365
        doy == doe - (365 * yoe + yoe \div 4 - yoe \div 100)
        mp  == (5 * doy + 2) \div 153
        d   == doy - (153 * mp + 2) \div 5 + 1
        m   == IF mp < 10 THEN mp + 3 ELSE mp - 9
        y   == yoe + era * 400 + (IF m <= 2 THEN 1 ELSE 0)
    IN  [y |-> y, m |-> m, d |-> d]

(***************************************************************************)
(* chrono: NaiveDate::parse_from_str(s, "%Y-%m-%d") and DateTime::format.  *)
(***************************************************************************)
\* scan::number(s, min, max): between min and max leading digits.
ScanNumber(s, min, max) ==
    LET n == DigitRun(s, max)
    IN  IF n < min THEN [ok |-> FALSE, v |-> 0, rest |-> s]
        ELSE [ok |-> TRUE, v |-> DecValue(SubSeq(s, 1, n)),
              rest |-> SubSeq(s, n + 1, Len(s))]

\* Item::Numeric: leading whitespace is skipped; a signed field (the year)
\* takes any number of digits after an explicit sign, else at most width.
ParseNumeric(s, width, signed) ==
    LET t == TrimStart(s)
    IN  IF signed /\ t # <<>> /\ Head(t) = "-"
        THEN LET r == ScanNumber(Tail(t), 1, Len(t))
             IN  [r EXCEPT !.v = 0 - r.v]
        ELSE IF signed /\ t # <<>> /\ Head(t) = "+"
        THEN ScanNumber(Tail(t), 1, Len(t))
        ELSE ScanNumber(t, 1, width)

\* Item::Literal: the next character must be c.
ParseLiteral(s, c) ==
    IF s # <<>> /\ Head(s) = c THEN [ok |-> TRUE, rest |-> Tail(s)]
    ELSE [ok |-> FALSE, rest |-> s]

MinYear == 0 - 262143
MaxYear == 262142

ValidYmd(y, m, d) ==
    /\ y >= MinYear /\ y <= MaxYear
    /\ m >= 1 /\ m <= 12
    /\ d >= 1 /\ d <= DaysInMonth(y, m)

ParseError == [ok |-> FALSE, y |-> 0, m |-> 0, d |-> 0]

\* NaiveDate::parse_from_str(s, "%Y-%m-%d"): year, '-', month, '-', day, no
\* trailing input, and the three fields name a day of the calendar.
NaiveDate_parse_from_str(s) ==
    LET py == ParseNumeric(s, 4, TRUE)
        l1 == ParseLiteral(py.rest, "-")
        pm == ParseNumeric(l1.rest, 2, FALSE)
        l2 == ParseLiteral(pm.rest, "-")
        pd == ParseNumeric(l2.rest, 2, FALSE)
    IN  IF ~py.ok THEN ParseError
        ELSE IF ~l1.ok THEN ParseError
        ELSE IF ~pm.ok THEN ParseError
        ELSE IF ~l2.ok THEN ParseError
        ELSE IF ~pd.ok THEN ParseError
        ELSE IF pd.rest # <<>> THEN ParseError
        ELSE IF ~ValidYmd(py.v, pm.v, pd.v) THEN ParseError
        ELSE [ok |-> TRUE, y |-> py.v, m |-> pm.v, d |-> pd.v]

\* The day number of a parsed date.
DayNumber(p) == DaysFromCivil(p.y, p.m, p.d)

\* The offset of the local time zone from UTC (two hours behind).
LocalOffset == 0 - 2 * 3600 * MsPerSec

\* The day instants are counted from.
EpochDay == DaysFromCivil(2024, 6, 10)

\* The calendar day an instant falls on, floor(t / one day).
DayOf(t) == EpochDay + t \div MsPerDay

\* format("%Y-%m-%d") of the instant t (a UTC instant, or a local one with
\* the zone's offset added).
FormatDate(t) ==
    LET c == CivilFromDays(DayOf(t))
    IN  Pad(c.y, 4) \o <<"-">> \o Pad(c.m, 2) \o <<"-">> \o Pad(c.d, 2)

\* format("%Y-%m-%d %H:%M:%S") of the instant t: the sub-second part of the
\* instant is dropped.
FormatDateTime(t) ==
    LET secs == (t % MsPerDay) \div MsPerSec
    IN  FormatDate(t) \o <<" ">> \o Pad(secs \div 3600, 2) \o <<":">>
          \o Pad((secs % 3600) \div 60, 2) \o <<":">> \o Pad(secs % 60, 2)

(***************************************************************************)
(* SQLite: date(X), date(X, '+N days') and the comparison of TEXT values.  *)
(***************************************************************************)
SqlNull == [null |-> TRUE, text |-> <<>>]
SqlText(s) == [null |-> FALSE, text |-> s]

\* getDigits: exactly n digits.
GetDigits(s, n) ==
    IF DigitRun(s, n) = n
    THEN [ok |-> TRUE, v |-> DecValue(SubSeq(s, 1, n)), rest |-> SubSeq(s, n + 1, Len(s))]
    ELSE [ok |-> FALSE, v |-> 0, rest |-> s]

\* sqlite3Isspace: the white space of ASCII.
SqliteIsspace(c) == c \in {" ", "\t", "\n", "", "\f", "\r"}

RECURSIVE SqliteSkipSpace(_)
\* The white space and the letters T that may follow the day of a date.
SqliteSkipSpace(s) ==
    IF s # <<>> /\ (SqliteIsspace(Head(s)) \/ Head(s) = "T")
    THEN SqliteSkipSpace(Tail(s)) ELSE s

\* parseYyyyMmDd: an optional '-', then YYYY-MM-DD with exactly 4, 2 and 2
\* digits, month 01..12, day 01..31 (not checked against the month), then
\* only white space.  The year is negative after a '-'.  A time-of-day
\* suffix and a text that is a number (a julian day) are outside the texts
\* add stores, and count as no date.
SqliteParseDate(s) ==
    LET neg == s # <<>> /\ Head(s) = "-"
        py == GetDigits(IF neg THEN Tail(s) ELSE s, 4)
        l1 == ParseLiteral(py.rest, "-")
        pm == GetDigits(l1.rest, 2)
        l2 == ParseLiteral(pm.rest, "-")
        pd == GetDigits(l2.rest, 2)
    IN  IF ~py.ok THEN ParseError
        ELSE IF ~l1.ok THEN ParseError
        ELSE IF ~pm.ok THEN ParseError
        ELSE IF ~l2.ok THEN ParseError
        ELSE IF ~pd.ok THEN ParseError
        ELSE IF pm.v < 1 \/ pm.v > 12 \/ pd.v < 1 \/ pd.v > 31 THEN ParseError
        ELSE IF SqliteSkipSpace(pd.rest) # <<>> THEN ParseError
        ELSE [ok |-> TRUE, y |-> IF neg THEN 0 - py.v ELSE py.v,
              m |-> pm.v, d |-> pd.v]

\* The first year computeJD takes; an earlier one is an error.
SqliteMinYear == 0 - 4713

\* validJulianDay, in days: the julian day numbers of the dates (midnight)
\* from -4713-11-25 to 9999-12-31.
SqliteMinJulianDay == 1
SqliteMaxJulianDay == 5373484

ValidJulianDay(jd) == jd >= SqliteMinJulianDay /\ jd <= SqliteMaxJulianDay

\* computeJD: the julian day number of Y-M-D, with C's truncating division
\* (which is not the calendar's for a negative year).
ComputeJD(y, m, d) ==
    LET yy == IF m <= 2 THEN y - 1 ELSE y
        mm == IF m <= 2 THEN m + 12 ELSE m
        a  == TruncDiv(yy, 100)
        b  == 2 - a + TruncDiv(a, 4)
        x1 == TruncDiv(36525 * (yy + 4716), 100)
        x2 == TruncDiv(306001 * (mm + 1), 10000)
    IN  x1 + x2 + d + b - 1524

\* computeYMD: the date of the julian day number z.
ComputeYMD(z) ==
    LET a0 == TruncDiv(z * 100 - 186721625, 3652425)
        a  == z + 1 + a0 - TruncDiv(a0, 4)
        b  == a + 1524
        c  == TruncDiv(b * 100 - 12210, 36525)
        dd == TruncDiv(36525 * c, 100)
        e  == TruncDiv((b - dd) * 10000, 306001)
        x1 == TruncDiv(306001 * e, 10000)
        m  == IF e < 14 THEN e - 1 ELSE e - 13
    IN  [y |-> IF m > 2 THEN c - 4716 ELSE c - 4715, m |-> m, d |-> b - dd - x1]

\* The text date() gives for year, month and day: a '-' before a negative
\* year, the year 4 digits wide.
SqliteYmdText(y, m, d) ==
    (IF y < 0 THEN <<"-">> ELSE <<>>)
        \o Pad(IF y < 0 THEN 0 - y ELSE y, 4) \o <<"-">> \o Pad(m, 2) \o <<"-">> \o Pad(d, 2)

\* date(X): the date as YYYY-MM-DD text with the fields as X has them, NULL
\* when X is no date or its julian day is out of range.
SqliteDate(s) ==
    LET p == SqliteParseDate(s)
    IN  IF p.ok /\ p.y >= SqliteMinYear /\ ValidJulianDay(ComputeJD(p.y, p.m, p.d))
        THEN SqlText(SqliteYmdText(p.y, p.m, p.d))
        ELSE SqlNull

\* The text of an integer bound as a parameter and concatenated with ||.
IntText(n) == IF n < 0 THEN <<"-">> \o Pad(0 - n, 1) ELSE Pad(n, 1)

\* A modifier of days moves the date by less than this many days.
DayModifierLimit == 5373485

\* The modifier 'NNN days': a sign, then a number, then ' days'.  The text
\* after the sign must be a number, so '+-1 days' is no modifier, and the
\* number must be below the limit.
SqliteModifierDays(z) ==
    LET body == IF z # <<>> /\ Head(z) \in {"+", "-"} THEN Tail(z) ELSE z
        n    == DigitRun(body, Len(body))
        ds   == StripZeros(SubSeq(body, 1, n))
        neg  == z # <<>> /\ Head(z) = "-"
    IN  IF /\ n >= 1
           /\ SubSeq(body, n + 1, Len(body)) = <<" ", "d", "a", "y", "s">>
           /\ DigitsLeq(ds, Pad(DayModifierLimit - 1, 1))
        THEN [ok |-> TRUE, days |-> IF neg THEN 0 - DecValue(ds) ELSE DecValue(ds)]
        ELSE [ok |-> FALSE, days |-> 0]

\* date(X, M): the date of the julian day of X moved by M, NULL when X is no
\* date, M is no modifier or the julian day moved is out of range.
SqliteDateModified(s, modifier) ==
    LET p  == SqliteParseDate(s)
        md == SqliteModifierDays(modifier)
        jd == ComputeJD(p.y, p.m, p.d) + md.days
    IN  IF p.ok /\ p.y >= SqliteMinYear /\ md.ok /\ ValidJulianDay(jd)
        THEN LET c == ComputeYMD(jd)
             IN  SqlText(SqliteYmdText(c.y, c.m, c.d))
        ELSE SqlNull

RECURSIVE TextLeq(_, _)
\* a <= b for TEXT values under the BINARY collation (memcmp, then length).
TextLeq(a, b) ==
    IF a = <<>> THEN TRUE
    ELSE IF b = <<>> THEN FALSE
    ELSE IF CharCode(Head(a)) < CharCode(Head(b)) THEN TRUE
    ELSE IF CharCode(Head(a)) > CharCode(Head(b)) THEN FALSE
    ELSE TextLeq(Tail(a), Tail(b))

\* a <= b in a WHERE clause: a comparison with NULL is NULL, which selects
\* no row.
SqlLeqTrue(a, b) == ~a.null /\ ~b.null /\ TextLeq(a.text, b.text)

(***************************************************************************)
(* The tokens table (CREATE_TABLE_SQL): a set of rows                      *)
(*   [id, name, expires_at, last_notified]                                 *)
(* with id the INTEGER PRIMARY KEY (the rowid), name UNIQUE, expires_at    *)
(* TEXT and last_notified TEXT or NULL (None).                             *)
(***************************************************************************)
MaxRowid(rows) == CHOOSE i \in {r.id : r \in rows} : \A r \in rows : r.id <= i

\* The rowid SQLite gives a row inserted without one: one more than the
\* largest in the table, chosen before a conflicting row is deleted.
NewRowid(rows) == IF rows = {} THEN 1 ELSE MaxRowid(rows) + 1

\* A changed InsertOrReplace: an upsert that keeps the row of the name and
\* overwrites only its expires_at.
InsertOrUpdate(rows, name, expires_at) ==
    IF \E r \in rows : r.name = name
    THEN {IF r.name = name THEN [r EXCEPT !.expires_at = expires_at] ELSE r : r \in rows}
    ELSE rows \cup {[id |-> NewRowid(rows), name |-> name, expires_at |-> expires_at,
                     last_notified |-> None]}

\* A changed InsertOrReplace: a plain INSERT into a table whose name column
\* is not UNIQUE.
InsertPlain(rows, name, expires_at) ==
    rows \cup {[id |-> NewRowid(rows), name |-> name, expires_at |-> expires_at,
                last_notified |-> None]}

\* INSERT OR REPLACE INTO tokens (name, expires_at): the row that holds the
\* UNIQUE name is deleted, the new row has no last_notified.
InsertOrReplace(rows, name, expires_at) ==
    {r \in rows : r.name # name}
      \cup {[id |-> NewRowid(rows), name |-> name, expires_at |-> expires_at,
             last_notified |-> None]}

\* add_token: the date is validated first; the text is stored as given.
add_token(rows, name, expires_at) ==
    IF ~NaiveDate_parse_from_str(expires_at).ok
    THEN [ok |-> FALSE, rows |-> rows]
    ELSE [ok |-> TRUE, rows |-> InsertOrReplace(rows, name, expires_at)]

\* A changed remove_token: an error when no row has the name.
remove_token_strict(rows, name) ==
    IF \A r \in rows : r.name # name THEN [ok |-> FALSE, rows |-> rows]
    ELSE [ok |-> TRUE, rows |-> {r \in rows : r.name # name}]

\* remove_token: DELETE FROM tokens WHERE name = ?1.
remove_token(rows, name) == [ok |-> TRUE, rows |-> {r \in rows : r.name # name}]

Token(r) == [name |-> r.name, expires_at |-> r.expires_at,
             last_notified |-> r.last_notified]

RECURSIVE ByRowid(_)
\* The rows of a table scan, in rowid order.
ByRowid(rows) ==
    IF rows = {} THEN <<>>
    ELSE LET first == CHOOSE r \in rows : \A q \in rows : r.id <= q.id
         IN  <<first>> \o ByRowid(rows \ {first})

RECURSIVE MapToken(_)
MapToken(rs) == IF rs = <<>> THEN <<>> ELSE <<Token(Head(rs))>> \o MapToken(Tail(rs))

\* A changed list_tokens: only the rows that have been notified.
list_tokens_notified(rows) ==
    MapToken(ByRowid({r \in rows : IsSome(r.last_notified)}))

\* list_tokens: SELECT name, expires_at, last_notified FROM tokens.
list_tokens(rows) == MapToken(ByRowid(rows))

\* The WHERE clause of get_expiring_tokens for one row:
\*   date(expires_at) <= date(?1, '+' || ?2 || ' days')
ExpiringWhere(r, nowText, threshold_days) ==
    SqlLeqTrue(SqliteDate(r.expires_at),
               SqliteDateModified(nowText, <<"+">> \o IntText(threshold_days) \o <<" ", "d", "a", "y", "s">>))

\* A changed get_expiring_tokens: the query without its WHERE clause.
get_all_tokens(rows, t, threshold_days) == MapToken(ByRowid(rows))

\* get_expiring_tokens at the UTC instant t.
get_expiring_tokens(rows, t, threshold_days) ==
    LET nowText == FormatDate(t)
    IN  MapToken(ByRowid({r \in rows : ExpiringWhere(r, nowText, threshold_days)}))

\* A changed update_last_notified: the UPDATE is lost, no row is changed.
update_last_notified_lost(rows, t, token_name) == rows

\* A changed update_last_notified: the time of day without the day it is on.
update_last_notified_time_of_day(rows, t, token_name) ==
    {IF r.name = token_name
       THEN [r EXCEPT !.last_notified = Some(FormatDateTime(t % MsPerDay))]
       ELSE r : r \in rows}

\* A changed update_last_notified: an upsert, which stores a row for a name
\* that has none.
update_last_notified_upsert(rows, t, token_name) ==
    IF \E r \in rows : r.name = token_name
    THEN {IF r.name = token_name
            THEN [r EXCEPT !.last_notified = Some(FormatDateTime(t))]
            ELSE r : r \in rows}
    ELSE rows \cup {[id |-> NewRowid(rows), name |-> token_name,
                     expires_at |-> FormatDate(t),
                     last_notified |-> Some(FormatDateTime(t))]}

\* A changed update_last_notified: the local time in place of the UTC time.
update_last_notified_local(rows, t, token_name) ==
    {IF r.name = token_name
       THEN [r EXCEPT !.last_notified = Some(FormatDateTime(t + LocalOffset))]
       ELSE r : r \in rows}

\* update_last_notified at the UTC instant t:
\*   UPDATE tokens SET last_notified = ?1 WHERE name = ?2
update_last_notified(rows, t, token_name) ==
    {IF r.name = token_name
       THEN [r EXCEPT !.last_notified = Some(FormatDateTime(t))]
       ELSE r : r \in rows}

(***************************************************************************)
(* Configuration (Config::from_env).  An environment says whether each of  *)
(* the two required variables is set and gives the text of the optional    *)
(* ones.                                                                   *)
(***************************************************************************)
DefaultThresholdText == <<"1">>
DefaultIntervalText == <<"3", "6", "0", "0">>

\* The decimal digits of i64::MAX, of the magnitude of i64::MIN and of
\* u64::MAX.
I64MaxDigits ==
    <<"9", "2", "2", "3", "3", "7", "2", "0", "3", "6", "8", "5", "4", "7", "7", "5", "8", "0", "7">>
I64MinDigits ==
    <<"9", "2", "2", "3", "3", "7", "2", "0", "3", "6", "8", "5", "4", "7", "7", "5", "8", "0", "8">>
U64MaxDigits ==
    <<"1", "8", "4", "4", "6", "7", "4", "4", "0", "7", "3", "7", "0", "9", "5", "5", "1", "6", "1", "5">>

\* str::parse for an integer type: an optional sign ('-' only for a signed
\* type), then digits only and at least one; Err when the value is outside
\* the type (posMax, and negMax below zero).
ParseInteger(s, signed, posMax, negMax) ==
    LET neg  == s # <<>> /\ Head(s) = "-"
        body == IF s # <<>> /\ Head(s) \in {"+", "-"} THEN Tail(s) ELSE s
        ds   == StripZeros(body)
    IN  IF body = <<>> \/ DigitRun(body, Len(body)) # Len(body)
        THEN [ok |-> FALSE, v |-> 0]
        ELSE IF neg /\ ~signed THEN [ok |-> FALSE, v |-> 0]
        ELSE IF ~DigitsLeq(ds, IF neg THEN negMax ELSE posMax)
        THEN [ok |-> FALSE, v |-> 0]
        ELSE [ok |-> TRUE, v |-> IF neg THEN 0 - DecValue(ds) ELSE DecValue(ds)]

\* str::parse::<i64>.
ParseI64(s) == ParseInteger(s, TRUE, I64MaxDigits, I64MinDigits)

\* str::parse::<u64>: a '-' is an invalid digit.
ParseU64(s) == ParseInteger(s, FALSE, U64MaxDigits, <<"0">>)

NoConfig == [notification_threshold_days |-> 0, check_interval_seconds |-> 0]

Config_from_env(env) ==
    LET th == ParseI64(IF IsSome(env.threshold) THEN Unwrap(env.threshold)
                       ELSE DefaultThresholdText)
        iv == ParseU64(IF IsSome(env.interval) THEN Unwrap(env.interval)
                       ELSE DefaultIntervalText)
    IN  IF ~env.bot_token THEN [ok |-> FALSE, config |-> NoConfig]
        ELSE IF ~env.chat_id THEN [ok |-> FALSE, config |-> NoConfig]
        ELSE IF ~th.ok THEN [ok |-> FALSE, config |-> NoConfig]
        ELSE IF ~iv.ok THEN [ok |-> FALSE, config |-> NoConfig]
        ELSE [ok |-> TRUE,
              config |-> [notification_threshold_days |-> th.v,
                          check_interval_seconds |-> iv.v]]

(***************************************************************************)
(* The message of a due token (check_and_notify, lines 207-222).           *)
(***************************************************************************)
\* days_remaining = (expires_date - today).num_days(), today the local date.
DaysRemaining(expires, localNow) == DayNumber(expires) - DayOf(localNow)

\* A changed Message: a token that expires today is not yet EXPIRED.
MessageExpiredAfterToday(name, days_remaining) ==
    IF days_remaining < 0
    THEN [expired |-> TRUE, name |-> name, days |-> 0, plural |-> FALSE]
    ELSE [expired |-> FALSE, name |-> name, days |-> days_remaining,
          plural |-> days_remaining > 1]

\* The message of line 213-222: EXPIRED, or "will expire in N day(s)".
Message(name, days_remaining) ==
    IF days_remaining <= 0
    THEN [expired |-> TRUE, name |-> name, days |-> 0, plural |-> FALSE]
    ELSE [expired |-> FALSE, name |-> name, days |-> days_remaining,
          plural |-> days_remaining > 1]

(***************************************************************************)
(* Inputs and bounds.                                                      *)
(***************************************************************************)
Names == {"A", "B"}

D0611 == <<"2", "0", "2", "4", "-", "0", "6", "-", "1", "1">>
D0612 == <<"2", "0", "2", "4", "-", "0", "6", "-", "1", "2">>
\* Accepted by chrono (one-digit month and day), no date for SQLite.
DShort == <<"2", "0", "2", "4", "-", "6", "-", "9">>
\* The malformed date of the specification, "2024-13-40".
DBad == <<"2", "0", "2", "4", "-", "1", "3", "-", "4", "0">>

DateInputs == {D0611, D0612, DShort, DBad}

EnvDefault == [bot_token |-> TRUE, chat_id |-> TRUE, threshold |-> None, interval |-> None]

\* The environments a daemon is started in.
DaemonEnvs ==
    {EnvDefault,
     [EnvDefault EXCEPT !.chat_id = FALSE]}

\* The environments a CLI command is run in.
CliEnvs == {EnvDefault, [EnvDefault EXCEPT !.bot_token = FALSE]}

\* The clock starts at 2024-06-10 23:59:58.600 UTC and never goes back; it
\* advances by an hour at a time, between any two steps.
StartInstant == (23 * 3600 + 59 * 60 + 58) * MsPerSec + 600

ClockSteps == {3600 * MsPerSec}

MaxTicks == 1
MaxCli == 3

(***************************************************************************)
(* State.                                                                  *)
(***************************************************************************)
VARIABLES
    store,            \* the rows of the tokens table
    dbFile,           \* token_notifier.db exists and holds the table
    now,              \* the system clock, a UTC instant
    ticks,            \* how often the clock has advanced
    pc,               \* the daemon's position: start, opened (init_db has
                      \* returned), begin (check_and_notify is called),
                      \* query, send, flight (the request is posted), stamp
                      \* (the send is answered), update, sleep, or main
                      \* has returned: failed (the Err of init_db), exited
                      \* (the Err of Config::from_env)
    created,          \* the daemon's init_db has made the database file
    config,           \* the daemon's Config
    expiring_tokens,  \* check_and_notify: the Vec<Token> of the query
    idx,              \* check_and_notify: the position of the for loop
    wakeAt,           \* the instant the current sleep ends, while the
                      \* daemon sleeps
    sweepStart,       \* the instant check_and_notify was called, until it
                      \* returns
    queryNow,         \* get_expiring_tokens: the clock it has read (now),
                      \* until it returns
    posted,           \* the message of the request that is posted, until
                      \* it is answered
    updateNow,        \* update_last_notified: the clock it has read (now),
                      \* until it returns
    attempts,         \* the sends of the current sweep, in order
    sweepResult,      \* running, ok (Ok(())), error (Err(e)), none
    dbFailed,         \* a store operation of the current sweep has failed
    cli,              \* the CLI process: its position in main (idle when
                      \* none runs), the Cli that Cli::parse returned, and
                      \* whether its init_db has created the database file
    cliOut,           \* the command of the last CLI run and how it ended;
                      \* none while a run goes on
    listed,           \* the Tokens the last CLI run has printed, in order
    cliRuns,          \* how many CLI commands have run
    addedAfterSend,   \* the names add has stored after the current sweep
                      \* has posted its request for them, while the sweep
                      \* was going on
    retryDue          \* the names of the records a send has failed for,
                      \* neither removed nor added again since

vars == <<store, dbFile, now, ticks, pc, created, config, expiring_tokens, idx,
          wakeAt, sweepStart, queryNow, posted, updateNow, attempts, sweepResult,
          dbFailed, cli, cliOut, listed, cliRuns, addedAfterSend, retryDue>>

daemonVars == <<pc, created, config, expiring_tokens, idx, wakeAt, sweepStart, queryNow,
                posted, updateNow, attempts, sweepResult, dbFailed>>

\* No CLI process runs.
CliIdle == [pc |-> "idle", cmd |-> "none", name |-> "", expires_at |-> <<>>,
            created |-> FALSE]

\* No CLI run has ended yet.
NoOutput == [cmd |-> "none", status |-> "none", had |-> "absent"]

Init ==
    /\ store = {}
    /\ dbFile = FALSE
    /\ now = StartInstant
    /\ ticks = 0
    /\ pc = "start"
    /\ created = FALSE
    /\ config = NoConfig
    /\ expiring_tokens = <<>>
    /\ idx = 0
    /\ wakeAt = 0
    /\ sweepStart = 0
    /\ queryNow = 0
    /\ posted = None
    /\ updateNow = 0
    /\ attempts = <<>>
    /\ sweepResult = "none"
    /\ dbFailed = FALSE
    /\ cli = CliIdle
    /\ cliRuns = 0
    /\ cliOut = NoOutput
    /\ listed = <<>>
    /\ addedAfterSend = {}
    /\ retryDue = {}

(***************************************************************************)
(* The clock.                                                              *)
(***************************************************************************)
Tick ==
    /\ ticks < MaxTicks
    /\ \E step \in ClockSteps : now' = now + step
    /\ ticks' = ticks + 1
    /\ UNCHANGED <<store, dbFile, daemonVars, cli, cliOut, listed, cliRuns, addedAfterSend, retryDue>>

(***************************************************************************)
(* The CLI: one run of main with the command add, remove or list, a        *)
(* process of its own next to the daemon.  main opens the database         *)
(* (init_db, line 61), loads the configuration (Config::from_env, line     *)
(* 64), then runs the statement of the command (lines 68, 72, 76); the     *)
(* daemon and the clock go on between these steps.  A store operation of   *)
(* the run can meet an error of the store (the database is locked by       *)
(* another process, an I/O error): the ? operator returns it from main,    *)
(* which writes nothing.                                                   *)
(***************************************************************************)
\* The database file after init_db has failed: Connection::open has made it
\* and CREATE TABLE has failed, or it is as it was.
AfterFailedInit(exists) == {exists, TRUE}

\* What the table holds under a name: nothing, a row never notified, or a
\* row with last_notified set.
Had(rows, name) ==
    IF \A r \in rows : r.name # name THEN "absent"
    ELSE IF \E r \in rows : r.name = name /\ IsSome(r.last_notified) THEN "notified"
    ELSE "fresh"

\* The command lines of the CLI: what Cli::parse returns for add with a name
\* and one of the dates, for remove with a name, and for list.
CliArgs(dates) ==
    {[cmd |-> "add", name |-> n, expires_at |-> d] : n \in Names, d \in dates}
      \cup {[cmd |-> "remove", name |-> n, expires_at |-> <<>>] : n \in Names}
      \cup {[cmd |-> "list", name |-> "", expires_at |-> <<>>]}

\* How a CLI run that has met an error ends: main returns the Err.
CliFails(cmd, status) ==
    /\ cli' = CliIdle
    /\ cliOut' = [cmd |-> cmd, status |-> status, had |-> "absent"]

\* main, lines 58-61: a CLI process starts, Cli::parse reads its command
\* line and init_db opens the database and creates the table.
CliInit(args, dbError) ==
    /\ cli.pc = "idle"
    /\ cliRuns < MaxCli
    /\ cliRuns' = cliRuns + 1
    /\ listed' = <<>>
    /\ IF dbError
       THEN /\ dbFile' \in AfterFailedInit(dbFile)
            /\ CliFails(args.cmd, "store_error")
       ELSE /\ dbFile' = TRUE
            /\ cli' = [pc |-> "opened", cmd |-> args.cmd, name |-> args.name,
                       expires_at |-> args.expires_at, created |-> ~dbFile]
            /\ cliOut' = NoOutput
    /\ UNCHANGED <<store, now, ticks, daemonVars, addedAfterSend, retryDue>>

\* main, line 64: Config::from_env, whose Err ends the run.
CliConfig(env) ==
    /\ cli.pc = "opened"
    /\ IF Config_from_env(env).ok
       THEN /\ cli' = [cli EXCEPT !.pc = "configured"]
            /\ UNCHANGED cliOut
       ELSE CliFails(cli.cmd, "config_error")
    /\ UNCHANGED <<store, dbFile, now, ticks, daemonVars, listed, cliRuns, addedAfterSend, retryDue>>

\* main, lines 66-70: add_token and its message, or the Err of the date or
\* of the store (which the INSERT meets after the date has parsed).
CliAdd(dbError) ==
    LET res == add_token(store, cli.name, cli.expires_at)
    IN  /\ cli.pc = "configured" /\ cli.cmd = "add"
        /\ dbError => res.ok
        /\ IF dbError
           THEN /\ CliFails("add", "store_error")
                /\ UNCHANGED <<store, addedAfterSend, retryDue>>
           ELSE /\ cli' = CliIdle
                /\ store' = res.rows
                /\ cliOut' = [cmd |-> "add",
                              status |-> IF res.ok THEN "ok" ELSE "invalid_date",
                              had |-> Had(store, cli.name)]
                /\ addedAfterSend' =
                       IF /\ res.ok /\ pc \in {"send", "flight", "stamp", "update"}
                          /\ \/ \E k \in 1..Len(attempts) : attempts[k].name = cli.name
                             \/ pc = "flight" /\ expiring_tokens[idx].name = cli.name
                       THEN addedAfterSend \cup {cli.name}
                       ELSE addedAfterSend
                /\ retryDue' = IF res.ok THEN retryDue \ {cli.name} ELSE retryDue
        /\ UNCHANGED <<dbFile, now, ticks, daemonVars, listed, cliRuns>>

\* main, lines 71-74: remove_token and its message, or the Err of the store.
CliRemove(dbError) ==
    LET res == remove_token(store, cli.name)
    IN  /\ cli.pc = "configured" /\ cli.cmd = "remove"
        /\ IF dbError \/ ~res.ok
           THEN /\ CliFails("remove", "store_error")
                /\ UNCHANGED <<store, retryDue>>
           ELSE /\ cli' = CliIdle
                /\ store' = res.rows
                /\ cliOut' = [cmd |-> "remove", status |-> "ok", had |-> Had(store, cli.name)]
                /\ retryDue' = retryDue \ {cli.name}
        /\ UNCHANGED <<dbFile, now, ticks, daemonVars, listed, cliRuns, addedAfterSend>>

\* What list_tokens has printed when the store fails: nothing when the
\* statement fails, the rows before the row whose read fails otherwise.
PrintedBeforeError(tokens) ==
    {SubSeq(tokens, 1, k) : k \in 0..(Len(tokens) - 1)} \cup {<<>>}

\* main, lines 75-77: list_tokens reads the rows of the table and prints
\* them one by one, or returns the Err of the store.
CliList(dbError) ==
    /\ cli.pc = "configured" /\ cli.cmd = "list"
    /\ IF dbError
       THEN /\ CliFails("list", "store_error")
            /\ listed' \in PrintedBeforeError(list_tokens(store))
       ELSE /\ cli' = CliIdle
            /\ cliOut' = [cmd |-> "list", status |-> "ok", had |-> "absent"]
            /\ listed' = list_tokens(store)
    /\ UNCHANGED <<store, dbFile, now, ticks, daemonVars, cliRuns, addedAfterSend, retryDue>>

(***************************************************************************)
(* The daemon: main with the command daemon, then run_daemon's loop.       *)
(***************************************************************************)
\* A changed Propagates: the Err(e) of a store operation is dropped.
PropagatesNever(dbError) == FALSE

\* The ? operator on the Result of a store operation: an Err(e) returns from
\* check_and_notify at once.
Propagates(dbError) == dbError

\* A changed EndSweep: after an error the loop goes on without its sleep.
EndSweepNoSleepOnError(result) ==
    /\ pc' = IF result = "error" THEN "begin" ELSE "sleep"
    /\ wakeAt' = now + config.check_interval_seconds * MsPerSec
    /\ sweepStart' = 0
    /\ sweepResult' = result

\* check_and_notify returns: the loop logs an error and sleeps.
EndSweep(result) ==
    /\ pc' = "sleep"
    /\ wakeAt' = now + config.check_interval_seconds * MsPerSec
    /\ sweepStart' = 0
    /\ sweepResult' = result

\* The for loop goes to its next token, or check_and_notify returns Ok(()).
NextToken ==
    IF idx < Len(expiring_tokens)
    THEN /\ pc' = "send"
         /\ idx' = idx + 1
         /\ UNCHANGED <<wakeAt, sweepStart, sweepResult>>
    ELSE /\ EndSweep("ok")
         /\ idx' = idx

\* main, lines 58-61, with the command daemon: init_db opens the database
\* and creates the table, or main returns its Err.
DaemonInit(dbError) ==
    /\ pc = "start"
    /\ IF dbError
       THEN /\ dbFile' \in AfterFailedInit(dbFile)
            /\ pc' = "failed"
            /\ UNCHANGED created
       ELSE /\ dbFile' = TRUE
            /\ pc' = "opened"
            /\ created' = ~dbFile
    /\ UNCHANGED <<store, now, ticks, config, expiring_tokens, idx, wakeAt, sweepStart, queryNow, posted, updateNow, attempts, sweepResult, dbFailed, cli, cliOut, listed, cliRuns, addedAfterSend, retryDue>>

\* main, lines 64 and 79-80: Config::from_env, whose Err main returns, then
\* run_daemon up to its first call of check_and_notify.
DaemonConfig(env) ==
    LET cfg == Config_from_env(env)
    IN  /\ pc = "opened"
        /\ created' = FALSE
        /\ IF cfg.ok
           THEN /\ pc' = "begin"
                /\ config' = cfg.config
                /\ sweepStart' = now
                /\ sweepResult' = "running"
           ELSE /\ pc' = "exited"
                /\ UNCHANGED <<config, sweepStart, sweepResult>>
        /\ UNCHANGED <<store, dbFile, now, ticks, expiring_tokens, idx, wakeAt, queryNow, posted, updateNow, attempts, dbFailed, cli, cliOut, listed, cliRuns, addedAfterSend, retryDue>>

\* get_expiring_tokens, line 138: Utc::now, read before the statement runs.
QueryNow ==
    /\ pc = "begin"
    /\ pc' = "query"
    /\ queryNow' = now
    /\ UNCHANGED <<store, dbFile, now, ticks, created, config, expiring_tokens, idx, wakeAt, sweepStart, posted, updateNow, attempts, sweepResult, dbFailed, cli, cliOut, listed, cliRuns, addedAfterSend, retryDue>>

\* check_and_notify, line 204, get_expiring_tokens, lines 139-154: the
\* SELECT with the date read before, or a store error that ends the sweep.
Query(dbError) ==
    /\ pc = "query"
    /\ dbFailed' = dbError
    /\ queryNow' = 0
    /\ IF Propagates(dbError)
       THEN /\ EndSweep("error")
            /\ UNCHANGED <<expiring_tokens, idx>>
       ELSE LET tokens == get_expiring_tokens(store, queryNow, config.notification_threshold_days)
            IN  /\ expiring_tokens' = tokens
                /\ IF tokens = <<>>
                   THEN /\ EndSweep("ok")
                        /\ idx' = 0
                   ELSE /\ pc' = "send"
                        /\ idx' = 1
                        /\ UNCHANGED <<wakeAt, sweepStart, sweepResult>>
    /\ UNCHANGED <<store, dbFile, now, ticks, created, config, posted, updateNow, attempts, cli, cliOut, listed, cliRuns, addedAfterSend, retryDue>>

\* A changed WritesBack: last_notified is written whatever the send returned.
WritesBackAlways(sent) == TRUE

\* Whether check_and_notify writes last_notified back after a send.
WritesBack(sent) == sent

\* check_and_notify, lines 207-224: the expiry of the current token is
\* parsed, Local::now is read, the message is made and
\* send_telegram_notification posts it.
Post ==
    LET token   == expiring_tokens[idx]
        expires == NaiveDate_parse_from_str(token.expires_at)
    IN  /\ pc = "send"
        /\ IF ~expires.ok
           THEN /\ EndSweep("error")
                /\ UNCHANGED posted
           ELSE /\ posted' = Some(Message(token.name, DaysRemaining(expires, now + LocalOffset)))
                /\ pc' = "flight"
                /\ UNCHANGED <<wakeAt, sweepStart, sweepResult>>
        /\ UNCHANGED <<store, dbFile, now, ticks, created, config, expiring_tokens, idx, queryNow, updateNow, attempts, dbFailed, cli, cliOut, listed, cliRuns, addedAfterSend, retryDue>>

\* check_and_notify, lines 224-228: the request is answered, or it fails;
\* after a send that failed the loop goes to its next token.
Send(sent) ==
    LET token == expiring_tokens[idx]
    IN  /\ pc = "flight"
        /\ attempts' = Append(attempts,
               [name |-> token.name, message |-> Unwrap(posted), ok |-> sent])
        /\ posted' = None
        /\ retryDue' =
               IF /\ ~sent
                  /\ \E r \in store : /\ r.name = token.name
                                      /\ r.expires_at = token.expires_at
               THEN retryDue \cup {token.name}
               ELSE retryDue
        /\ IF WritesBack(sent)
           THEN /\ pc' = "stamp"
                /\ UNCHANGED <<idx, wakeAt, sweepStart, sweepResult>>
           ELSE NextToken
        /\ UNCHANGED <<store, dbFile, now, ticks, created, config, expiring_tokens, queryNow, updateNow, dbFailed, cli, cliOut, listed, cliRuns, addedAfterSend>>

\* update_last_notified, line 158: Utc::now, read before the statement runs.
UpdateNow ==
    /\ pc = "stamp"
    /\ pc' = "update"
    /\ updateNow' = now
    /\ UNCHANGED <<store, dbFile, now, ticks, created, config, expiring_tokens, idx, wakeAt, sweepStart, queryNow, posted, attempts, sweepResult, dbFailed, cli, cliOut, listed, cliRuns, addedAfterSend, retryDue>>

\* check_and_notify, line 227, update_last_notified, lines 159-163: the
\* UPDATE with the time read before, or a store error that ends the sweep.
Update(dbError) ==
    /\ pc = "update"
    /\ dbFailed' = dbError
    /\ updateNow' = 0
    /\ store' = IF dbError THEN store
                ELSE update_last_notified(store, updateNow, expiring_tokens[idx].name)
    /\ IF Propagates(dbError)
       THEN /\ EndSweep("error")
            /\ idx' = idx
       ELSE NextToken
    /\ UNCHANGED <<dbFile, now, ticks, created, config, expiring_tokens, queryNow, posted, attempts, cli, cliOut, listed, cliRuns, addedAfterSend, retryDue>>

\* run_daemon, lines 247-249 and back to line 243: the sleep ends and
\* check_and_notify is called for the next sweep.
Wake ==
    /\ pc = "sleep"
    /\ now >= wakeAt
    /\ pc' = "begin"
    /\ wakeAt' = 0
    /\ sweepStart' = now
    /\ sweepResult' = "running"
    /\ attempts' = <<>>
    /\ dbFailed' = FALSE
    /\ expiring_tokens' = <<>>
    /\ idx' = 0
    /\ addedAfterSend' = {}
    /\ UNCHANGED <<store, dbFile, now, ticks, created, config, queryNow, posted, updateNow, cli, cliOut, listed, cliRuns, retryDue>>

Next ==
    \/ Tick
    \/ \E args \in CliArgs(DateInputs), dbError \in BOOLEAN : CliInit(args, dbError)
    \/ \E env \in CliEnvs : CliConfig(env)
    \/ \E dbError \in BOOLEAN : CliAdd(dbError)
    \/ \E dbError \in BOOLEAN : CliRemove(dbError)
    \/ \E dbError \in BOOLEAN : CliList(dbError)
    \/ \E dbError \in BOOLEAN : DaemonInit(dbError)
    \/ \E env \in DaemonEnvs : DaemonConfig(env)
    \/ QueryNow
    \/ \E dbError \in BOOLEAN : Query(dbError)
    \/ Post
    \/ \E sent \in BOOLEAN : Send(sent)
    \/ UpdateNow
    \/ \E dbError \in BOOLEAN : Update(dbError)
    \/ Wake

Spec == Init /\ [][Next]_vars

(***************************************************************************)
(* Vocabulary of the properties.                                           *)
(***************************************************************************)
\* A step of the daemon (every one changes its position or its loop state).
DaemonStep == daemonVars' # daemonVars

\* The positions of the daemon in a sweep.
Checking == {"begin", "query", "send", "flight", "stamp", "update"}

\* The step in which check_and_notify returns and a sweep ends.
SweepEnds == DaemonStep /\ pc \in Checking /\ pc' = "sleep"

\* The instant a last_notified text "YYYY-MM-DD HH:MM:SS" names.
TimestampInstant(ts) ==
    (DaysFromCivil(DecValue(SubSeq(ts, 1, 4)), DecValue(SubSeq(ts, 6, 7)),
                   DecValue(SubSeq(ts, 9, 10))) - EpochDay) * MsPerDay
      + (DecValue(SubSeq(ts, 12, 13)) * 3600 + DecValue(SubSeq(ts, 15, 16)) * 60
           + DecValue(SubSeq(ts, 18, 19))) * MsPerSec

\* An instant truncated to whole seconds.
TruncSec(t) == t - (t % MsPerSec)

\* The rows of a table under a name.
RowsNamed(rows, name) == {r \in rows : r.name = name}

\* The names of a sequence of tokens or of send attempts, in order.
NamesOf(s) == [k \in 1..Len(s) |-> s[k].name]

\* s is a valid calendar date written as YYYY-MM-DD: four, two and two digits.
IsYmdDate(s) ==
    /\ Len(s) = 10
    /\ \A k \in {1, 2, 3, 4, 6, 7, 9, 10} : IsDigit(s[k])
    /\ s[5] = "-" /\ s[8] = "-"
    /\ ValidYmd(DecValue(SubSeq(s, 1, 4)), DecValue(SubSeq(s, 6, 7)), DecValue(SubSeq(s, 9, 10)))

\* The names of the records that are due at the UTC instant t: the expiry
\* that add validated is on or before the day of t plus threshold_days.
DueNames(rows, t, threshold_days) ==
    {r.name : r \in {q \in rows :
        LET p == NaiveDate_parse_from_str(q.expires_at)
        IN  p.ok /\ DayNumber(p) <= DayOf(t) + threshold_days}}

\* The thresholds find_expiring is checked for.
ThresholdInputs == {0 - 1, 0, 1, 2}

\* The statement of a run of add, of remove, that meets no store error.
AddStep(name, expires_at) ==
    cli.name = name /\ cli.expires_at = expires_at /\ CliAdd(FALSE)
RemoveStep(name) == cli.name = name /\ CliRemove(FALSE)

\* The step in which the CLI process runs the statement of its command and
\* main returns.
CommandStatement(cmd) == cli.pc = "configured" /\ cli.cmd = cmd /\ cli'.pc = "idle"

\* The step in which a run of add with these arguments prints
\* "Token added successfully".
AddSucceeds(name, expires_at) ==
    /\ CommandStatement("add")
    /\ cli.name = name /\ cli.expires_at = expires_at
    /\ cliOut'.status = "ok"

(***************************************************************************)
(* C1 .. C10                                                               *)
(***************************************************************************)
\* C1: in a sweep, a record whose send failed keeps its last_notified: no
\* step of the sweep changes, deletes or creates a row under the name of a
\* send that failed in it (absent stays absent, a timestamp stays the same).
C1_FailedSendKeepsLastNotified ==
    [][DaemonStep =>
         \A k \in 1..Len(attempts') : ~attempts'[k].ok =>
             RowsNamed(store', attempts'[k].name) = RowsNamed(store, attempts'[k].name)]_vars

\* A sweep has ended in which the send for a record notified before failed,
\* and the record still holds the timestamp the query read.
C1_Witness ==
    /\ pc = "sleep" /\ sweepResult = "ok"
    /\ \E k \in 1..Len(attempts) :
         /\ ~attempts[k].ok
         /\ attempts[k].name = expiring_tokens[k].name
         /\ IsSome(expiring_tokens[k].last_notified)
         /\ \E r \in store : /\ r.name = attempts[k].name
                             /\ r.last_notified = expiring_tokens[k].last_notified

\* C2 as stated: after a sweep, every record whose send succeeded has
\* last_notified present and not earlier than the instant the sweep started.
C2_Original ==
    [][SweepEnds =>
         \A k \in 1..Len(attempts') : attempts'[k].ok =>
             \E r \in store' : /\ r.name = attempts'[k].name
                                /\ IsSome(r.last_notified)
                                /\ TimestampInstant(Unwrap(r.last_notified)) >= sweepStart]_vars

\* C2 amended: when the send for a due record succeeds and the write-back
\* meets no store error, the record (if the CLI has not removed it since the
\* query) has right after the write-back last_notified present, equal to the
\* UTC time the write-back has read at its start, in whole seconds, which
\* is not earlier than the sweep's start truncated to whole seconds; and no
\* later step of the sweep changes that record.
C2_Amended ==
    [][DaemonStep =>
         /\ (pc = "update" /\ ~dbFailed') =>
               \A r \in RowsNamed(store, expiring_tokens[idx].name) :
                   \E q \in store' :
                       /\ q.id = r.id /\ q.name = r.name /\ q.expires_at = r.expires_at
                       /\ IsSome(q.last_notified)
                       /\ TimestampInstant(Unwrap(q.last_notified)) = TruncSec(updateNow)
                       /\ updateNow <= now
                       /\ TimestampInstant(Unwrap(q.last_notified)) >= TruncSec(sweepStart)
         /\ \A k \in 1..Len(attempts) : (attempts[k].ok /\ k < idx) =>
               RowsNamed(store', attempts[k].name) = RowsNamed(store, attempts[k].name)]_vars

\* The send and the write-back of a sweep for a record have succeeded, and
\* the timestamp written is in the second the sweep started in, before the
\* instant it started.
C2_Witness ==
    /\ pc \in Checking /\ sweepResult = "running"
    /\ \E k \in 1..Len(attempts) :
         /\ attempts[k].ok
         /\ \E r \in store : /\ r.name = attempts[k].name
                             /\ IsSome(r.last_notified)
                             /\ TimestampInstant(Unwrap(r.last_notified)) >= TruncSec(sweepStart)
                             /\ TimestampInstant(Unwrap(r.last_notified)) < sweepStart

\* C3 as stated: a sweep that meets no store error attempts exactly one send
\* for each record that is due when it queries the store (on the date the
\* query has read): the query takes up every due record, and the loop sends
\* once for each token of the query, whatever the outcome of the sends and
\* whatever last_notified holds.
C3_Original ==
    [][DaemonStep =>
         /\ (pc = "query" /\ ~dbFailed') =>
               /\ {expiring_tokens'[k].name : k \in 1..Len(expiring_tokens')}
                    = DueNames(store, queryNow, config.notification_threshold_days)
               /\ Len(expiring_tokens')
                    = Cardinality(DueNames(store, queryNow, config.notification_threshold_days))
         /\ (pc # "sleep" /\ pc' = "sleep" /\ sweepResult' = "ok") =>
               NamesOf(attempts') = NamesOf(expiring_tokens')]_vars

\* The loop's part of C3: a sweep that returns Ok(()) has attempted exactly
\* one send for each token of its query, in the order of the query.
SweepSendsEachQueriedToken ==
    (pc = "sleep" /\ sweepResult = "ok") => NamesOf(attempts) = NamesOf(expiring_tokens)

\* C4: a store error in a sweep (the query, or the write-back after a send
\* that succeeded) ends the sweep at once: the daemon sleeps, the result is
\* an error, the tokens after the failing step have no send attempt; the
\* daemon's next step starts a new sweep, which queries the store afresh.
C4_StoreErrorEndsSweep ==
    [][DaemonStep =>
         /\ dbFailed' => /\ pc' = "sleep" /\ sweepResult' = "error"
                         /\ attempts' = attempts /\ store' = store
                         /\ Len(attempts') <= idx'
         /\ dbFailed => /\ pc' = "begin" /\ sweepResult' = "running"
                        /\ ~dbFailed' /\ attempts' = <<>> /\ expiring_tokens' = <<>>
         /\ (pc = "query" /\ ~dbFailed') =>
               expiring_tokens' = get_expiring_tokens(store, queryNow, config.notification_threshold_days)]_vars

\* The write-back after a successful send has failed while due tokens were
\* left in the list: the sweep is over and they have had no send.
C4_Witness ==
    /\ dbFailed /\ pc = "sleep"
    /\ idx >= 1 /\ idx < Len(expiring_tokens)
    /\ Len(attempts) = idx /\ attempts[idx].ok


\* C5: the loop alternates between Checking and Idle: a sweep that ends, with
\* or without errors, is followed by a sleep of the configured interval; a
\* sweep starts only from the sleep, when the interval has passed; and the
\* loop never returns: no step leaves the loop, and in Checking the sweep
\* always has its next step (the query, or a token of the list to send for
\* or to write back).
C5_LoopAlternates ==
    [][DaemonStep =>
         /\ (pc' \in {"send", "flight", "stamp", "update"}) =>
               idx' \in 1..Len(expiring_tokens')
         /\ (pc \notin {"start", "opened"}) => pc' \in Checking \cup {"sleep"}
         /\ (pc \in Checking) => (pc' \in Checking \cup {"sleep"})
         /\ (sweepResult = "running" /\ sweepResult' # "running") =>
               /\ pc' = "sleep" /\ sweepResult' \in {"ok", "error"}
               /\ wakeAt' = now + config.check_interval_seconds * MsPerSec
         /\ (pc \in Checking /\ pc' = "sleep") => sweepResult' # "running"
         /\ (pc = "sleep") => (pc' = "begin" /\ now >= wakeAt /\ sweepResult' = "running")
         /\ (pc' = "begin" /\ pc # "begin") => pc \in {"sleep", "opened"}]_vars

\* The loop has slept out its interval and started its next sweep: the
\* sweep has started, and has not sent yet, the interval or more after an
\* earlier sweep wrote a last_notified.
C5_Witness ==
    /\ pc = "query" /\ sweepResult = "running"
    /\ \E r \in store :
         /\ IsSome(r.last_notified)
         /\ sweepStart >= TimestampInstant(Unwrap(r.last_notified))
                             + config.check_interval_seconds * MsPerSec

\* C6: the step in which an add of a name with a date succeeds leaves
\* exactly one record under that name, with the expiry just given and
\* last_notified absent, also when the record it replaces had last_notified
\* set.
C6_ReAddReplacesAndClears ==
    [][\A n \in Names, d \in DateInputs :
         AddSucceeds(n, d) =>
             /\ Cardinality(RowsNamed(store', n)) = 1
             /\ \A r \in RowsNamed(store', n) :
                    r.expires_at = d /\ r.last_notified = None]_vars

\* An add has replaced a record whose last_notified a sweep had set, and the
\* record now has none.
C6_Witness ==
    /\ cliOut = [cmd |-> "add", status |-> "ok", had |-> "notified"]
    /\ \E n \in Names :
         /\ Cardinality(RowsNamed(store, n)) = 1
         /\ \A r \in RowsNamed(store, n) : r.last_notified = None /\ r.id >= 2

\* C7 as stated: an add whose expires_at is not a valid calendar date in the
\* form YYYY-MM-DD ends with an error and leaves the table as it was.
C7_Original ==
    [][\A n \in Names, d \in DateInputs :
         (AddStep(n, d) /\ ~IsYmdDate(d)) =>
             (cliOut'.status = "invalid_date" /\ store' = store)]_vars

\* The part of C7 the code keeps: an add whose expires_at chrono cannot
\* parse ends with an error and leaves the table as it was.
UnparsableAddLeavesStore ==
    [][\A n \in Names, d \in DateInputs :
         (AddStep(n, d) /\ ~NaiveDate_parse_from_str(d).ok) =>
             (cliOut'.status = "invalid_date" /\ store' = store)]_vars

\* C8: no two rows of the table have the same name.
C8_NamesUnique == \A r1 \in store, r2 \in store : r1.name = r2.name => r1 = r2

\* An add has replaced a record while the table held a record of each name.
C8_Witness ==
    /\ cliOut.cmd = "add" /\ cliOut.status = "ok" /\ cliOut.had # "absent"
    /\ \A n \in Names : Cardinality(RowsNamed(store, n)) = 1

\* C9: remove(name) succeeds whether or not a record has the name: the
\* statement of a run of remove that meets no store error ends without an
\* error, leaves no record under the name and every other record as it was,
\* changes nothing when there was none, and a second remove changes nothing.
C9_RemoveIdempotent ==
    [][\A n \in Names :
         RemoveStep(n) =>
             /\ cliOut'.cmd = "remove" /\ cliOut'.status = "ok"
             /\ RowsNamed(store', n) = {}
             /\ \A m \in Names \ {n} : RowsNamed(store', m) = RowsNamed(store, m)
             /\ store' \subseteq store
             /\ (RowsNamed(store, n) = {}) => (store' = store)
             /\ remove_token(store', n) = [ok |-> TRUE, rows |-> store']]_vars

\* A remove of a name no record has has succeeded on a table that holds a
\* record.
C9_Witness ==
    /\ cliOut = [cmd |-> "remove", status |-> "ok", had |-> "absent"]
    /\ store # {}

\* C10 as stated: for every threshold and current date, find_expiring
\* returns exactly the stored records whose expiry is on or before the day
\* threshold_days after the current day.
C10_Original ==
    \A th \in ThresholdInputs :
        LET found == get_expiring_tokens(store, now, th)
        IN  /\ {found[k].name : k \in 1..Len(found)} = DueNames(store, now, th)
            /\ Len(found) = Cardinality(DueNames(store, now, th))

\* What find_expiring does keep: for a threshold that is not negative, it
\* returns exactly the due records among those whose expiry is written as
\* YYYY-MM-DD.
FindExpiringExactOnYmd ==
    \A th \in {h \in ThresholdInputs : h >= 0} :
        LET found == get_expiring_tokens({r \in store : IsYmdDate(r.expires_at)}, now, th)
        IN  /\ {found[k].name : k \in 1..Len(found)}
                 = DueNames({r \in store : IsYmdDate(r.expires_at)}, now, th)
            /\ Len(found) = Cardinality({r \in store : IsYmdDate(r.expires_at)
                                           /\ r.name \in DueNames(store, now, th)})

\* A negative threshold selects no record, whatever the table holds.
NegativeThresholdFindsNothing ==
    \A th \in {h \in ThresholdInputs : h < 0} : get_expiring_tokens(store, now, th) = <<>>

(***************************************************************************)
(* One sweep of a daemon started on a store that earlier adds have filled, *)
(* at one of several instants and with one of several thresholds.          *)
(***************************************************************************)
\* Expiry dates from 2024-06-09 to 2024-06-13, as add stores them.
SweepDates == {FormatDate(k * MsPerDay) : k \in (0 - 1)..3}

\* 2024-06-10 12:00:00, 2024-06-10 23:59:58.6, 2024-06-11 00:30:00 (the local
\* date is still 2024-06-10) and 2024-06-11 03:00:00, all UTC.
SweepInstants ==
    {12 * 3600 * MsPerSec, StartInstant, MsPerDay + 1800 * MsPerSec,
     MsPerDay + 3 * 3600 * MsPerSec}

\* Expiry texts that add accepts as well: 2024-06-09 after a tab, and
\* June 11 of the year -2024.
SweepOddDates ==
    {<<"\t">> \o FormatDate(0 - MsPerDay), <<"-">> \o FormatDate(MsPerDay)}

\* NOTIFICATION_THRESHOLD_DAYS is 0, unset (1), 3, 7000000 (more days than a
\* modifier of days takes) or one more than i64::MAX (not a number of the
\* type).
SweepEnvs ==
    {EnvDefault,
     [EnvDefault EXCEPT !.threshold = Some(<<"0">>)],
     [EnvDefault EXCEPT !.threshold = Some(<<"3">>)],
     [EnvDefault EXCEPT !.threshold = Some(Pad(7000000, 1))],
     [EnvDefault EXCEPT !.threshold = Some(I64MinDigits)]}

\* The tables that adds of the names, in order, leave behind.
SweepStores ==
    {{}} \cup {add_token({}, n, d).rows : n \in Names, d \in SweepDates \cup SweepOddDates}
         \cup {add_token(add_token({}, "A", d1).rows, "B", d2).rows :
                 d1 \in SweepDates \cup SweepOddDates,
                 d2 \in SweepDates \cup SweepOddDates}

SweepInit ==
    /\ store \in SweepStores
    /\ dbFile = TRUE
    /\ now \in SweepInstants
    /\ ticks = MaxTicks
    /\ pc = "start"
    /\ created = FALSE
    /\ config = NoConfig
    /\ expiring_tokens = <<>>
    /\ idx = 0
    /\ wakeAt = 0
    /\ sweepStart = 0
    /\ queryNow = 0
    /\ posted = None
    /\ updateNow = 0
    /\ attempts = <<>>
    /\ sweepResult = "none"
    /\ dbFailed = FALSE
    /\ cli = CliIdle
    /\ cliRuns = MaxCli
    /\ cliOut = NoOutput
    /\ listed = <<>>
    /\ addedAfterSend = {}
    /\ retryDue = {}

SweepNext ==
    \/ \E dbError \in BOOLEAN : DaemonInit(dbError)
    \/ \E env \in SweepEnvs : DaemonConfig(env)
    \/ QueryNow
    \/ \E dbError \in BOOLEAN : Query(dbError)
    \/ Post
    \/ \E sent \in BOOLEAN : Send(sent)
    \/ UpdateNow
    \/ \E dbError \in BOOLEAN : Update(dbError)

SweepSpec == SweepInit /\ [][SweepNext]_vars

(***************************************************************************)
(* C11 .. C20                                                              *)
(***************************************************************************)
\* The step that makes the message of a send attempt and posts it, and the
\* step in which the attempt is answered or fails.
PostStep == pc = "send" /\ pc' = "flight"
SendStep == Len(attempts') = Len(attempts) + 1

\* The whole calendar days from the local date of the instant t to the date
\* the text expires_at names.
DaysUntil(expires_at, t) ==
    DayNumber(NaiveDate_parse_from_str(expires_at)) - DayOf(t + LocalOffset)

\* C11: the message of a send, made when the request is posted and the one
\* the attempt has, is decided by days_remaining, the expiry date minus
\* today's date in whole days: EXPIRED when it is 0 or less, "1 day"
\* in the singular when it is 1, "N days" in the plural with N =
\* days_remaining when it is 2 or more.
C11_MessageWording ==
    [][/\ PostStep =>
         LET token == expiring_tokens[idx]
             days_remaining == DaysUntil(token.expires_at, now)
             m == Unwrap(posted')
         IN  /\ m.name = token.name
             /\ (days_remaining <= 0) => m.expired
             /\ (days_remaining = 1) => (~m.expired /\ m.days = 1 /\ ~m.plural)
             /\ (days_remaining >= 2) =>
                    (~m.expired /\ m.days = days_remaining /\ m.plural)
       /\ SendStep => (IsSome(posted) /\ attempts'[Len(attempts')].message = Unwrap(posted))]_vars

\* One sweep has sent an EXPIRED message and then a message in the plural.
C11_Witness ==
    /\ Len(attempts) = 2
    /\ attempts[1].message.expired
    /\ ~attempts[2].message.expired /\ attempts[2].message.plural
    /\ attempts[2].message.days >= 2

\* C12: over the lifetime of a record the present values of last_notified
\* never go back: no step replaces a present last_notified of a record by
\* an earlier timestamp, the system clock never going back.  (An add that
\* replaces a record makes a new record, under a new rowid.)
C12_LastNotifiedMonotone ==
    [][\A r \in store \ store', q \in store' \ store :
         (/\ r.id = q.id /\ r.name = q.name
          /\ IsSome(r.last_notified) /\ IsSome(q.last_notified)) =>
             TimestampInstant(Unwrap(q.last_notified))
               >= TimestampInstant(Unwrap(r.last_notified))]_vars

\* A sweep has overwritten the last_notified its query had read for a record
\* by a later one.
C12_Witness ==
    \E k \in 1..Len(expiring_tokens) : \E r \in store :
        /\ r.name = expiring_tokens[k].name
        /\ IsSome(expiring_tokens[k].last_notified) /\ IsSome(r.last_notified)
        /\ TimestampInstant(Unwrap(r.last_notified))
             > TimestampInstant(Unwrap(expiring_tokens[k].last_notified))

\* C13: the write-back for a name that has no row any more (a remove came
\* between the query and the write-back) is a silent no-op: unless the store
\* itself fails, the table is left as it is, no row is created, the sweep
\* does not end in an error and goes on to its next token, or ends with
\* Ok(()) after its last one.
C13_WriteBackAfterRemove ==
    [][(/\ DaemonStep /\ pc = "update" /\ ~dbFailed'
        /\ RowsNamed(store, expiring_tokens[idx].name) = {}) =>
            /\ store' = store
            /\ sweepResult' # "error"
            /\ expiring_tokens' = expiring_tokens
            /\ IF idx < Len(expiring_tokens)
               THEN pc' = "send" /\ idx' = idx + 1 /\ sweepResult' = "running"
               ELSE pc' = "sleep" /\ sweepResult' = "ok"]_vars

\* The two CLI commands so far were an add and the remove of the record the
\* add had stored, never notified; the sweep that sent its notification
\* has ended with Ok(()) all the same, and the table is empty.
C13_Witness ==
    /\ cliRuns = 2
    /\ cliOut = [cmd |-> "remove", status |-> "ok", had |-> "fresh"]
    /\ store = {}
    /\ pc = "sleep" /\ sweepResult = "ok" /\ ~dbFailed
    /\ Len(attempts) = 1 /\ attempts[1].ok

\* C14: a record that add has stored after the sweep's send for its name
\* has had no send since its most recent add, so its last_notified is
\* absent: in every reachable state, a record with last_notified present
\* has had a successful send after its most recent add.
C14_Original ==
    \A r \in store : r.name \in addedAfterSend => r.last_notified = None

\* What does hold: last_notified is written only by the write-back that
\* follows a successful send for the name, in the same sweep.
WriteBackFollowsSuccessfulSend ==
    [][\A q \in store' :
         (IsSome(q.last_notified) /\ q \notin store) =>
             /\ pc = "update" /\ q.name = expiring_tokens[idx].name
             /\ attempts # <<>>
             /\ attempts[Len(attempts)].name = q.name
             /\ attempts[Len(attempts)].ok]_vars

\* The step in which Config::from_env returns its Err to main: of the
\* daemon, of a CLI run.
DaemonConfigFails == pc = "opened" /\ pc' = "exited"
CliConfigFails == cli.pc = "opened" /\ cli'.pc = "idle" /\ cliOut'.status = "config_error"

\* C15: a command whose configuration is missing a required value fails
\* before any store access: the database file is not opened or created,
\* the table is not modified, and the command does nothing.  (A run that
\* fails has run its init_db in an earlier step, and has or has not created
\* the file in it.)
C15_Original ==
    [][/\ DaemonConfigFails => (~created /\ dbFile' = dbFile /\ store' = store)
       /\ CliConfigFails => (~cli.created /\ dbFile' = dbFile /\ store' = store)]_vars

\* What does hold: a command whose configuration is missing a required value
\* does not perform its action: the rows stay as they are and a daemon makes
\* no sweep.
ConfigErrorPerformsNoAction ==
    [][(DaemonConfigFails \/ CliConfigFails) =>
            /\ store' = store
            /\ pc' = "exited" \/ pc' = pc
            /\ attempts' = attempts /\ expiring_tokens' = expiring_tokens]_vars

\* C17: the step in which an add succeeds leaves a record (name, d,
\* last_notified absent) and every record of another name as it was; the
\* step in which list prints returns exactly the records of the table, one
\* line a record, and does not change the table; and as long as no other CLI
\* command has run since, the names and expiries list has printed are those
\* of the records of the table.
C17_AddListRoundTrip ==
    [][/\ \A n \in Names, d \in DateInputs :
            AddSucceeds(n, d) =>
                /\ \E r \in store' :
                      r.name = n /\ r.expires_at = d /\ r.last_notified = None
                /\ {r \in store' : r.name # n} = {r \in store : r.name # n}
       /\ CommandStatement("list") =>
                /\ store' = store
                /\ (cliOut'.status = "ok") =>
                       /\ Len(listed') = Cardinality(store)
                       /\ {listed'[k] : k \in 1..Len(listed')} = {Token(r) : r \in store}
       /\ (cliOut'.cmd = "list" /\ cliOut'.status = "ok") =>
                {<<listed'[k].name, listed'[k].expires_at>> : k \in 1..Len(listed')}
                  = {<<r.name, r.expires_at>> : r \in store'}]_vars

\* After the add of a record next to a record that has been notified, list
\* has printed the two, the new one without last_notified and the notified
\* one with it.
C17_Witness ==
    /\ cliOut = [cmd |-> "list", status |-> "ok", had |-> "absent"]
    /\ Len(listed) = 2 /\ Cardinality(store) = 2
    /\ \E k \in 1..2 : listed[k].last_notified = None
    /\ \E k \in 1..2 : IsSome(listed[k].last_notified)

\* C18: every message of a sweep is for a record that is due with respect
\* to the day the message counts from: its days_remaining is at most
\* threshold_days.
C18_Original ==
    \A k \in 1..Len(attempts) :
        \/ attempts[k].message.expired
        \/ attempts[k].message.days <= config.notification_threshold_days

\* What does hold: every message of a sweep is for a record that is due with
\* respect to the UTC date of the sweep's query.
SentAreDueByUtcDate ==
    [][/\ (DaemonStep /\ pc = "query" /\ ~dbFailed') =>
            \A k \in 1..Len(expiring_tokens') :
                DayNumber(NaiveDate_parse_from_str(expiring_tokens'[k].expires_at))
                  <= DayOf(queryNow) + config.notification_threshold_days
       /\ SendStep =>
            /\ Len(attempts') <= Len(expiring_tokens)
            /\ attempts'[Len(attempts')].name = expiring_tokens[Len(attempts')].name]_vars

\* The rows of a table without their last_notified.
Identities(rows) ==
    {[id |-> r.id, name |-> r.name, expires_at |-> r.expires_at] : r \in rows}

\* C19: a sweep changes nothing in the table but the last_notified of
\* records it has sent a notification for successfully: no step of the
\* daemon creates or deletes a record or changes a name or an expiry, and a
\* record whose last_notified a step changes is one that the sweep's query
\* returned (it has the name and the expiry read there and has not been
\* stored by an add since the send) and whose send succeeded.
C19_Original ==
    [][DaemonStep =>
         /\ Identities(store') = Identities(store)
         /\ \A q \in store' \ store :
                /\ q.name \notin addedAfterSend
                /\ \E k \in 1..Len(attempts) :
                      /\ attempts[k].ok /\ attempts[k].name = q.name
                      /\ expiring_tokens[k].name = q.name
                      /\ expiring_tokens[k].expires_at = q.expires_at]_vars

\* What does hold: no step of the daemon creates or deletes a record or
\* changes a name or an expiry, and a record whose last_notified a step
\* changes has the name of a send of the sweep that succeeded.
SweepFrameByName ==
    [][DaemonStep =>
         /\ Identities(store') = Identities(store)
         /\ \A q \in store' \ store :
                \E k \in 1..Len(attempts) :
                    attempts[k].ok /\ attempts[k].name = q.name]_vars

\* C20: every send attempt of a sweep is for a record that was in the table
\* and due when the sweep made its one query: the query returns rows of the
\* table that are due, no later step of the sweep or of the CLI changes what
\* it returned, and the k-th send is for the k-th token returned, with the
\* name and the expiry read at the query.
C20_SendsAreForQueriedRecords ==
    [][/\ (DaemonStep /\ pc = "query" /\ ~dbFailed') =>
            \A k \in 1..Len(expiring_tokens') :
                \E r \in store :
                    /\ Token(r) = expiring_tokens'[k]
                    /\ r.name \in DueNames(store, now, config.notification_threshold_days)
       /\ (pc \in {"send", "flight", "stamp", "update"}
             /\ pc' \in {"send", "flight", "stamp", "update"}) =>
              expiring_tokens' = expiring_tokens
       /\ PostStep =>
            /\ idx = Len(attempts) + 1 /\ idx <= Len(expiring_tokens)
            /\ posted' = Some(Message(expiring_tokens[idx].name,
                                      DaysUntil(expiring_tokens[idx].expires_at, now)))
       /\ SendStep =>
            /\ pc = "flight" /\ idx = Len(attempts') /\ idx <= Len(expiring_tokens)
            /\ attempts'[idx].name = expiring_tokens[idx].name
            /\ attempts'[idx].message = Unwrap(posted)]_vars

\* A sweep has made its send for a record as the query read it, expiring
\* on 2024-06-11, after an add had replaced the record by one that expires on
\* 2024-06-12.
C20_Witness ==
    \E k \in 1..Len(attempts) : \E r \in store :
        /\ pc \in {"send", "stamp", "update"}
        /\ r.name = attempts[k].name /\ r.name \notin addedAfterSend
        /\ expiring_tokens[k].name = r.name
        /\ expiring_tokens[k].expires_at = D0611
        /\ r.expires_at = D0612
        /\ attempts[k].message.days = 1

(***************************************************************************)
(* A daemon that runs for ever: with CHECK_INTERVAL_SECONDS=0 the sleep of *)
(* the loop ends at once, so that sweep follows sweep while the clock      *)
(* stands still and the CLI adds and removes records in between.           *)
(***************************************************************************)
LiveEnv == [EnvDefault EXCEPT !.interval = Some(<<"0">>)]

LiveDates == {D0611, DShort}

\* How many CLI commands run next to the daemon that runs for ever.
MaxLiveCli == 2

LiveNext ==
    \/ /\ cliRuns < MaxLiveCli
       /\ \E args \in CliArgs(LiveDates), dbError \in BOOLEAN : CliInit(args, dbError)
    \/ CliConfig(EnvDefault)
    \/ \E dbError \in BOOLEAN : CliAdd(dbError)
    \/ \E dbError \in BOOLEAN : CliRemove(dbError)
    \/ \E dbError \in BOOLEAN : CliList(dbError)
    \/ \E dbError \in BOOLEAN : DaemonInit(dbError)
    \/ DaemonConfig(LiveEnv)
    \/ QueryNow
    \/ \E dbError \in BOOLEAN : Query(dbError)
    \/ Post
    \/ \E sent \in BOOLEAN : Send(sent)
    \/ UpdateNow
    \/ \E dbError \in BOOLEAN : Update(dbError)
    \/ Wake

\* Strong fairness of the query that meets no store error and of the send
\* for the name n that succeeds, SF_vars(A) written out as
\*   <>[]~(ENABLED <<A>>_vars) \/ []<><<A>>_vars
\* with the enabling condition in place of ENABLED: Query(FALSE) is enabled
\* exactly when pc = "query", and Send(TRUE) is for n and enabled exactly
\* when pc = "flight" and the token of the loop has the name n.
\* Weak fairness of Post, which is enabled exactly when pc = "send" and
\* leaves it.
PostFairness == []<>(pc # "send")

QueryFairness == (<>[](pc # "query")) \/ ([]<><<Query(FALSE)>>_vars)

AtSendFor(n) == pc = "flight" /\ expiring_tokens[idx].name = n

SendFairness(n) == (<>[]~AtSendFor(n)) \/ ([]<><<AtSendFor(n) /\ Send(TRUE)>>_vars)

\* The step Update(FALSE) for the name n.
UpdateSucceeds(n) == Update(FALSE) /\ expiring_tokens[idx].name = n

\* The daemon keeps running; the query, the send for a name and the
\* write-back for a name, tried again and again, do not fail for ever.
LiveFairness ==
    /\ WF_vars(Wake) /\ WF_vars(QueryNow) /\ WF_vars(UpdateNow)
    /\ PostFairness
    /\ QueryFairness
    /\ \A n \in Names : SendFairness(n) /\ SF_vars(UpdateSucceeds(n))

LiveSpec == Init /\ [][LiveNext]_vars /\ LiveFairness

\* The record of rowid i under the name n has had a send of the current
\* sweep that failed: the send was for the expiry the record has, and no add
\* has stored the name after the send while the sweep went on.
FailedSendFor(n, i) ==
    /\ n \notin addedAfterSend
    /\ \E k \in 1..Len(attempts) : \E r \in store :
          /\ ~attempts[k].ok /\ attempts[k].name = n
          /\ expiring_tokens[k].name = n
          /\ r.id = i /\ r.name = n /\ r.expires_at = expiring_tokens[k].expires_at

\* The record of rowid i under the name n has been notified, or it has been
\* removed or replaced by an add.
NotifiedOrGone(n, i) ==
    \A r \in store : (r.id = i /\ r.name = n) => IsSome(r.last_notified)

\* The sweep that ends in this step has made a send attempt for the name.
AttemptedFor(n) == \E k \in 1..Len(attempts') : attempts'[k].name = n

\* The daemon running on and the query, the sends and the write-backs not
\* failing for ever, a record whose send has failed and that is neither
\* removed nor added again has its last_notified present in the end.
EventuallyNotified ==
    \A n \in Names : \A i \in 1..MaxLiveCli :
        FailedSendFor(n, i) ~> NotifiedOrGone(n, i)

\* C16 as stated: implicit retry.  Every sweep that ends has made a send
\* attempt for every record a send has failed for and that has been neither
\* removed nor added again since (the sweep of the failed send has made
\* that attempt, a later sweep must make a new one); and such a record has
\* its last_notified present in the end.
C16_Original ==
    /\ [][SweepEnds => \A n \in retryDue : AttemptedFor(n)]_vars
    /\ EventuallyNotified

\* C16, amended: a sweep that a store error ends makes no send attempt for
\* the records it has not got to.  Every query that succeeds returns every
\* record a send has failed for and that has been neither removed nor added
\* again since, as the table holds it; every sweep that ends without an
\* error has made a send attempt for every such record; and such a record
\* has its last_notified present in the end.
C16_Amended ==
    /\ [][(DaemonStep /\ pc = "query" /\ ~dbFailed') =>
            \A n \in retryDue : \E k \in 1..Len(expiring_tokens') : \E r \in store :
                r.name = n /\ expiring_tokens'[k] = Token(r)]_vars
    /\ [][(SweepEnds /\ sweepResult' = "ok") => \A n \in retryDue : AttemptedFor(n)]_vars
    /\ EventuallyNotified

\* A was added, then B.  An earlier sweep has notified B and not A, which
\* came before B in it: its send for A failed.  The current sweep has read
\* A as never notified, has sent for A again, and A is notified now.
C16_Witness ==
    /\ cliRuns = 2
    /\ "A" \in retryDue
    /\ {[id |-> r.id, name |-> r.name] : r \in store}
         = {[id |-> 1, name |-> "A"], [id |-> 2, name |-> "B"]}
    /\ \A r \in store : IsSome(r.last_notified)
    /\ Len(expiring_tokens) = 2
    /\ expiring_tokens[1].name = "A" /\ expiring_tokens[1].last_notified = None
    /\ expiring_tokens[2].name = "B" /\ IsSome(expiring_tokens[2].last_notified)
    /\ attempts # <<>> /\ attempts[1].ok

====
